---- MODULE Spec2Model ----
(***************************************************************************)
(* A model of backend/api-server.js: the session table (SessionManager),   *)
(* the /api/prompt handler with its conversation loop                      *)
(* (APIServer.processPromptWithMCP), and the newline-delimited JSON-RPC    *)
(* exchange with a tool-server child process (APIServer.sendMCPRequest).   *)
(*                                                                         *)
(* Node runs one callback at a time: every action below is one run of      *)
(* synchronous code between two suspension points (an await, a timer, an   *)
(* I/O event).                                                             *)
(***************************************************************************)
EXTENDS Integers, Sequences, FiniteSets, TLC

(***************************************************************************)
(* Bounds of the exploration.                                              *)
(***************************************************************************)
MaxClock == 4        \* clock ticks explored (one tick = 15 minutes)
MaxSessions == 2     \* session ids that can be created
MaxPrompts == 2      \* /api/prompt requests of one behaviour of Spec
MaxStorePrompts == 1 \* /api/prompt requests of one behaviour of SpecStore
MaxSlots == 2        \* /api/prompt requests in flight at once
MaxTools == 2        \* tool_use blocks in one model reply
MaxRounds == 1       \* iterations in which the model's reply is unrestricted

(***************************************************************************)
(* Program constants.                                                      *)
(***************************************************************************)
sessionTimeout == 2  \* 30 * 60 * 1000 ms, in ticks of 15 minutes
maxRetries == 3
maxIterations == 20

VARIABLES
  now,        \* Date.now(), in ticks
  store,      \* keys of SessionManager.sessions
  sess,       \* the session objects, by id (an object outlives its Map entry)
  created,    \* number of sessions created so far (uuidv4 never repeats)
  sweeps,     \* sessions whose scheduleCleanup timer has not fired yet
  cleaned,    \* sessions the cleanup has logged as expired and removed
  pr,         \* the /api/prompt requests, by slot: handler and loop locals
  nPrompts,   \* number of /api/prompt requests received so far
  service,    \* how the model service behaves in this exploration (see Replies)
  reqs,       \* the sendMCPRequest calls on one tool server, by caller
  inbox,      \* requests the tool server has read and not answered yet
  wire,       \* bytes the tool server has written that stdout has not emitted
  feed,       \* a record stream fed to the line buffering chunk by chunk
  served,     \* the response of the last session route served
  alive,      \* the tool-server child process has not been killed
  boot,       \* start-up and discoverAllTools: position, servers, catalog
  probe       \* one call of extractLocatorInfo: its arguments, its result

storeVars == <<now, store, sess, created, sweeps, cleaned>>
engineVars == <<pr, nPrompts, service>>
ioVars == <<reqs, inbox, wire, feed>>
auxVars == <<served, alive, boot, probe>>

SessionIds == 1..MaxSessions
Slots == 1..MaxSlots
Null == 0            \* null / undefined, where the value is a session id
NullStr == "null"    \* null / undefined, where the value is a string
NoTime == -1         \* null, where the value is a timestamp
NoLocator == <<>>    \* locatorInfo.locator = null

(***************************************************************************)
(* SessionManager                                                          *)
(***************************************************************************)
NewContext ==
  [currentUrl |-> NullStr, lastScreenshot |-> NoTime, browserState |-> "closed"]

\* The object createSession builds at time t.
NewSession(t) ==
  [createdAt |-> t, lastActivity |-> t, messages |-> <<>>,
   context |-> NewContext, locatorHistory |-> <<>>, totalSteps |-> 0]

\* SweepExpired with the comparison made non-strict.
SweepExpiredAtTimeout(s, t) == t - s.lastActivity >= sessionTimeout

\* The condition of the scheduleCleanup callback at time t for object s.
SweepExpired(s, t) == t - s.lastActivity > sessionTimeout

\* getAllSessions(): one summary per entry of the Map.
getAllSessions ==
  { [id |-> i, createdAt |-> sess[i].createdAt,
     lastActivity |-> sess[i].lastActivity,
     messageCount |-> Len(sess[i].messages),
     totalSteps |-> sess[i].totalSteps] : i \in store }

\* getSession(id) on a present id: refreshes lastActivity.
Touched(S, i, t) == [S EXCEPT ![i].lastActivity = t]

(***************************************************************************)
(* Tools.  A tool name is the sequence of its "_"-separated segments, so   *)
(* that includes('playwright_') and replace('playwright_', '') are what    *)
(* they are on the string.                                                 *)
(***************************************************************************)
NoArgs ==
  [selector |-> NullStr, locator |-> NullStr, text |-> NullStr,
   role |-> NullStr, name |-> NullStr, url |-> NullStr]

NavigateName == <<"playwright", "playwright", "navigate">>
ScreenshotName == <<"playwright", "playwright", "screenshot">>
ClickName == <<"playwright", "playwright", "click">>
EchoName == <<"custom", "echo">>
BogusName == <<"browser", "open">>

\* this.availableTools after discoverAllTools: the names of the catalog.
availableTools == {NavigateName, ScreenshotName, ClickName, EchoName}

\* JavaScript truthiness of an argument value: null, undefined and '' are falsy.
Truthy(v) == v # NullStr /\ v # ""

\* toolName.includes('playwright_'): a segment "playwright" followed by "_".
IncludesPrefix(nm) == \E i \in 1..(Len(nm) - 1) : nm[i] = "playwright"

\* toolName.replace('playwright_', ''): the first occurrence is removed.
RemovePrefix(nm) ==
  LET i == CHOOSE k \in 1..(Len(nm) - 1) :
             /\ nm[k] = "playwright"
             /\ \A j \in 1..(k - 1) : nm[j] # "playwright"
  IN  SubSeq(nm, 1, i - 1) \o SubSeq(nm, i + 1, Len(nm))

\* LocatorOf with the text field tested first.
LocatorOfTextFirst(args) ==
  IF Truthy(args.text) THEN <<"text", args.text>>
  ELSE IF Truthy(args.selector) THEN <<"raw", args.selector>>
  ELSE IF Truthy(args.locator) THEN <<"raw", args.locator>>
  ELSE IF Truthy(args.role) /\ Truthy(args.name)
       THEN <<"role", args.role, args.name>>
  ELSE NoLocator

\* The locator chosen from the arguments, or null.  A tuple <<kind, values>>
\* stands for the rendered string: text="T", role=R[name="N"].
LocatorOf(args) ==
  IF Truthy(args.selector) THEN <<"raw", args.selector>>
  ELSE IF Truthy(args.locator) THEN <<"raw", args.locator>>
  ELSE IF Truthy(args.text) THEN <<"text", args.text>>
  ELSE IF Truthy(args.role) /\ Truthy(args.name)
       THEN <<"role", args.role, args.name>>
  ELSE NoLocator

\* A tool result: "none" (null, on error), or what its text content says.
\*   "plain"   content whose text holds no failure keyword
\*   "failed"  content whose text holds 'error', 'failed' or 'not found'
\*   "bare"    a result without content
ResultKinds == {"plain", "failed", "bare"}

extractLocatorInfo(toolName, toolArgs, toolResult, t) ==
  LET pw == IncludesPrefix(toolName) IN
  [tool |-> toolName,
   timestamp |-> t,
   locator |-> IF pw THEN LocatorOf(toolArgs) ELSE NoLocator,
   action |-> IF pw THEN RemovePrefix(toolName) ELSE <<>>,
   success |-> ~(pw /\ toolResult = "failed")]

\* callTool(fullName, args) given what the tool server answers: the kind of
\* the result it returns, or "throws".  rpc is the JSON-RPC response:
\* a result ("plain", "failed", "bare"), an error object ("rpcerror"),
\* neither ("empty"), or none within 45 s ("timeout").
RpcOutcomes == {"plain", "failed", "bare", "rpcerror", "empty", "timeout"}

\* The answers explored in iteration it of the conversation loop: the tools
\* of a brief run succeed, and so do the screenshots of a long run past
\* MaxRounds.
LoopOutcomes(it) ==
  IF service = "brief" \/ (service = "long" /\ it > MaxRounds)
  THEN {"plain"} ELSE {"plain", "rpcerror"}

callTool(fullName, rpc) ==
  IF fullName \notin availableTools THEN "throws"
  ELSE IF rpc \in ResultKinds THEN rpc
  ELSE IF rpc = "empty" THEN "plain"
  ELSE "throws"

(***************************************************************************)
(* The model service.  A reply holds text or not, and a sequence of        *)
(* tool_use blocks.  The ids of the blocks of one reply are distinct.      *)
(***************************************************************************)
Navigate == [name |-> NavigateName, input |-> [NoArgs EXCEPT !.url = "https://example.com"]]
Click == [name |-> ClickName, input |-> [NoArgs EXCEPT !.selector = "#submit"]]
Screenshot == [name |-> ScreenshotName, input |-> NoArgs]
Bogus == [name |-> BogusName, input |-> NoArgs]
EchoSelector == [name |-> EchoName, input |-> [NoArgs EXCEPT !.selector = "#submit"]]

ToolCalls == {Navigate, Click, Bogus, EchoSelector}

SeqsUpTo(S, n) == UNION { [1..k -> S] : k \in 0..n }

\* What the model may answer in iteration it of an attempt.  The service is
\*   "long":   it keeps asking for a screenshot, up to the iteration cap;
\*   "varied": it asks for any of the tools for MaxRounds iterations, then
\*             finishes;
\*   "brief":  it asks for one click or one navigation for MaxRounds
\*             iterations, without text, then finishes.
Replies(it) ==
  LET uses == IF service = "long" THEN {<<>>, <<Screenshot>>}
              ELSE IF it > MaxRounds THEN {<<>>}
              ELSE IF service = "varied" THEN SeqsUpTo(ToolCalls, MaxTools)
              ELSE {<<>>, <<Click>>, <<Navigate>>}
      texts(u) == IF u = <<>> \/ (it <= MaxRounds /\ service # "brief")
                  THEN BOOLEAN ELSE {FALSE}
  IN  UNION { { [text |-> t, uses |-> u] : t \in texts(u) } : u \in uses }

\* The id of the i-th tool_use block of the reply of iteration it.
ToolUseId(it, i) == 10 * it + i

(***************************************************************************)
(* One /api/prompt request: the handler's and processPromptWithMCP's       *)
(* locals.  queries, overloads, otherFails and dispatched count what the   *)
(* request did (model calls made, 529 failures, other failures, tool calls *)
(* written to a tool server); they are kept where the service is not       *)
(* brief.                                                                  *)
(***************************************************************************)
Counted(n) == IF service = "brief" THEN n ELSE n + 1

NoUpdates ==
  [currentUrl |-> NullStr, lastScreenshot |-> NoTime, browserState |-> NullStr]

IdlePrompt ==
  [pc |-> "idle", turn |-> 0, sid |-> Null, isNew |-> FALSE,
   retryCount |-> 0, iteration |-> 0, complete |-> FALSE,
   finalResult |-> 0, messages |-> <<>>, locators |-> <<>>,
   context |-> NoUpdates, uses |-> <<>>, results |-> <<>>, idx |-> 0,
   delay |-> 0, engine |-> "none", status |-> 0, response |-> "",
   info |-> [totalSteps |-> 0, totalLocators |-> 0],
   queries |-> 0, overloads |-> 0, otherFails |-> 0, dispatched |-> 0]

UserMessage(turn) ==
  [role |-> "user", kind |-> "prompt", turn |-> turn, body |-> <<>>]

AssistantMessage(turn, it, uses) ==
  [role |-> "assistant", kind |-> "reply", turn |-> turn,
   body |-> [i \in 1..Len(uses) |-> [id |-> ToolUseId(it, i), is_error |-> FALSE]]]

\* ToolResultMessage without the results of the calls that failed.
ToolResultMessageOkOnly(turn, results) ==
  [role |-> "user", kind |-> "tool_results", turn |-> turn,
   body |-> SelectSeq(results, LAMBDA r : ~r.is_error)]

ToolResultMessage(turn, results) ==
  [role |-> "user", kind |-> "tool_results", turn |-> turn, body |-> results]

\* { ...session.context, ...result.context }
MergeContext(c, u) ==
  [currentUrl |-> IF u.currentUrl # NullStr THEN u.currentUrl ELSE c.currentUrl,
   lastScreenshot |-> IF u.lastScreenshot # NoTime THEN u.lastScreenshot
                      ELSE c.lastScreenshot,
   browserState |-> IF u.browserState # NullStr THEN u.browserState
                    ELSE c.browserState]

\* finalResult || 'Task completed successfully'
ResponseText(finalResult) ==
  IF finalResult # 0 THEN "accumulated text" ELSE "Task completed successfully"

\* RetryAllowed with the budget one attempt short.
RetryAllowedOneShort(retryCount) == retryCount + 1 < maxRetries

\* The test of the retry loop: while (retryCount < maxRetries).
RetryAllowed(retryCount) == retryCount < maxRetries

\* The test of the conversation loop.
LoopContinues(complete, iteration) == ~complete /\ iteration < maxIterations

\* CallModel with every pass of the loop counted as two iterations.
CallModelCountingTwice(q) ==
  [q EXCEPT !.pc = "awaitModel", !.iteration = q.iteration + 2,
            !.queries = Counted(q.queries)]

\* The call of anthropic.messages.create: the loop suspends on it.
CallModel(q) ==
  [q EXCEPT !.pc = "awaitModel", !.iteration = q.iteration + 1,
            !.queries = Counted(q.queries)]

\* The body of the retry loop up to the first model call: the locals are
\* reset and the messages rebuilt from the session's.
StartAttempt(q, s) ==
  CallModel([q EXCEPT !.messages = Append(s.messages, UserMessage(q.turn)),
                      !.complete = FALSE, !.iteration = 0, !.finalResult = 0,
                      !.locators = <<>>, !.context = NoUpdates,
                      !.uses = <<>>, !.results = <<>>, !.idx = 0,
                      !.delay = 0, !.engine = "running"])

\* The call of callTool for block i: a request goes to the tool server when
\* the tool is in the catalog.
CallToolAt(q, i) ==
  [q EXCEPT !.pc = "awaitTool", !.idx = i,
            !.dispatched = IF q.uses[i].name \in availableTools
                           THEN Counted(q.dispatched) ELSE q.dispatched]

(***************************************************************************)
(* The tool-server stream.  The bytes of stdout are tokens: "nl" is the     *)
(* newline, "sp" a space, "c3" "a9" the two bytes of the UTF-8 encoding of  *)
(* one non-ASCII character ("eacute"); every other token is the byte of an *)
(* ASCII character.  "ufffd" is the replacement character that             *)
(* Buffer.toString() puts in place of bytes that are no complete encoding. *)
(***************************************************************************)
MaxCallers == 2      \* sendMCPRequest calls that can be pending at once
MaxRecords == 2      \* records of a stream fed to the line buffering
MaxUnread == 2       \* requests the tool server has not answered yet
MaxTicks == 1        \* milliseconds that pass while calls are watched
MaxWire == 5         \* bytes on stdout below which the tool server writes

Callers == 1..MaxCallers

\* data.toString(): UTF-8 decoding of one chunk, on its own.
RECURSIVE Decode(_)
Decode(b) ==
  IF b = <<>> THEN <<>>
  ELSE IF Head(b) = "c3"
       THEN IF Len(b) >= 2 /\ b[2] = "a9"
            THEN <<"eacute">> \o Decode(SubSeq(b, 3, Len(b)))
            ELSE <<"ufffd">> \o Decode(Tail(b))
  ELSE IF Head(b) = "a9" THEN <<"ufffd">> \o Decode(Tail(b))
  ELSE <<Head(b)>> \o Decode(Tail(b))

\* The bytes a tool server writes for a text.
RECURSIVE Utf8(_)
Utf8(t) ==
  IF t = <<>> THEN <<>>
  ELSE IF Head(t) = "eacute" THEN <<"c3", "a9">> \o Utf8(Tail(t))
  ELSE <<Head(t)>> \o Utf8(Tail(t))

\* responseBuffer.split('\n')
RECURSIVE SplitLines(_)
SplitLines(t) ==
  IF \A i \in 1..Len(t) : t[i] # "nl" THEN <<t>>
  ELSE LET i == CHOOSE k \in 1..Len(t) :
                  t[k] = "nl" /\ \A j \in 1..(k - 1) : t[j] # "nl"
       IN  <<SubSeq(t, 1, i - 1)>> \o SplitLines(SubSeq(t, i + 1, Len(t)))

\* line.trim()
RECURSIVE Trim(_)
Trim(t) ==
  IF t = <<>> THEN t
  ELSE IF Head(t) = "sp" THEN Trim(Tail(t))
  ELSE IF t[Len(t)] = "sp" THEN Trim(SubSeq(t, 1, Len(t) - 1))
  ELSE t

\* One run of the line buffering of dataHandler without a matching record:
\* the non-blank complete lines, trimmed, and the unterminated rest.
Feed(buffer, chunk) ==
  LET lines == SplitLines(buffer \o Decode(chunk))
      done == [i \in 1..(Len(lines) - 1) |-> Trim(lines[i])]
  IN  [records |-> SelectSeq(done, LAMBDA l : l # <<>>),
       rest |-> lines[Len(lines)]]

\* A JSON-RPC record as written: "{", the id if it has one (a number, one
\* digit here), the payload, "}".
DigitChars == <<"0", "1", "2", "3", "4", "5", "6", "7", "8", "9">>
PayloadChars == {"a", "b", "eacute", "ufffd"}
NoId == -1           \* response.id is undefined

NumOf(c) == (CHOOSE k \in 1..Len(DigitChars) : DigitChars[k] = c) - 1

\* JSON.parse(line): ok is FALSE where it throws.
Parse(line) ==
  LET n == Len(line)
      hasId == n >= 3 /\ \E k \in 1..Len(DigitChars) : DigitChars[k] = line[2]
      from == IF hasId THEN 3 ELSE 2
  IN  IF /\ n >= 2 /\ line[1] = "{" /\ line[n] = "}"
         /\ \A i \in from..(n - 1) : line[i] \in PayloadChars
      THEN [ok |-> TRUE, id |-> IF hasId THEN NumOf(line[2]) ELSE NoId,
            payload |-> SubSeq(line, from, n - 1)]
      ELSE [ok |-> FALSE, id |-> NoId, payload |-> <<>>]

\* JSON.stringify(message) + '\n', as bytes.
Serialize(id, payload) ==
  Utf8(<<"{">> \o (IF id = NoId THEN <<>> ELSE <<DigitChars[id + 1]>>)
       \o payload \o <<"}">>) \o <<"nl">>

(***************************************************************************)
(* sendMCPRequest: one call per caller.  A call is pending until its       *)
(* promise is settled; its listener and its timer live on their own.       *)
(***************************************************************************)
FreeCall ==
  [state |-> "free", id |-> NoId, buffer |-> <<>>, listening |-> FALSE,
   timer |-> FALSE, response |-> [id |-> NoId, payload |-> <<>>]]

NoFeed == [stream |-> <<>>, rest |-> <<>>, buffer |-> <<>>, records |-> <<>>]

InitIO ==
  /\ reqs = [c \in Callers |-> FreeCall]
  /\ inbox = {}
  /\ wire = <<>>
  /\ feed = NoFeed

\* What the tool server answers to the request of caller c: the request's
\* id, and a payload that names the request.
AnswerTo(c) == <<"a", "b", "a", "b">>[c]

\* DataHandler resolving on the first complete record, whatever it is.
DataHandlerFirstRecord(r, chunk) ==
  LET f == Feed(r.buffer, chunk)
  IN  IF f.records # <<>>
      THEN LET got == Parse(f.records[1])
           IN  [r EXCEPT !.state = IF @ = "pending" THEN "resolved" ELSE @,
                         !.response = IF r.state = "pending"
                                      THEN [id |-> got.id, payload |-> got.payload]
                                      ELSE @,
                         !.buffer = r.buffer \o Decode(chunk),
                         !.listening = FALSE, !.timer = FALSE]
      ELSE [r EXCEPT !.buffer = f.rest]

\* dataHandler of call r on a chunk of stdout.
DataHandler(r, chunk) ==
  LET f == Feed(r.buffer, chunk)
      hits == { i \in 1..Len(f.records) :
                  Parse(f.records[i]).ok /\ Parse(f.records[i]).id = r.id }
  IN  IF hits # {}
      THEN LET first == CHOOSE i \in hits : \A j \in hits : i <= j
               got == Parse(f.records[first])
           IN  [r EXCEPT !.state = IF @ = "pending" THEN "resolved" ELSE @,
                         !.response = IF r.state = "pending"
                                      THEN [id |-> got.id, payload |-> got.payload]
                                      ELSE @,
                         !.buffer = r.buffer \o Decode(chunk),
                         !.listening = FALSE, !.timer = FALSE]
      ELSE [r EXCEPT !.buffer = f.rest]

\* callTool sends a tools/call request with id Date.now().
SendRequest(c) ==
  /\ reqs[c].state = "free"
  /\ reqs' = [reqs EXCEPT ![c] = [FreeCall EXCEPT !.state = "pending", !.id = now,
                                                  !.listening = TRUE, !.timer = TRUE]]
  /\ inbox' = IF alive THEN inbox \cup {[id |-> now, from |-> c]} ELSE inbox
  /\ UNCHANGED <<storeVars, engineVars, auxVars, wire, feed>>

\* The tool server answers one of the requests it has read, in any order.
ServerAnswer(q) ==
  /\ alive
  /\ q \in inbox
  /\ inbox' = inbox \ {q}
  /\ wire' = wire \o Serialize(q.id, <<AnswerTo(q.from)>>)
  /\ UNCHANGED <<storeVars, engineVars, auxVars, reqs, feed>>

\* Lines a tool server writes that answer no request: text that is no JSON,
\* a notification (no id), a response with an id nobody waits for.
NoiseRecords == {<<"a", "b">>, <<"{", "a", "}">>, <<"{", "9", "b", "}">>}

ServerNoise(k) ==
  /\ alive
  /\ wire' = wire \o Utf8(k) \o <<"nl">>
  /\ UNCHANGED <<storeVars, engineVars, auxVars, reqs, inbox, feed>>

\* stdout emits 'data' with the first n bytes written: every listener runs.
Deliver(n) ==
  /\ n \in 1..Len(wire)
  /\ reqs' = [c \in Callers |->
               IF reqs[c].listening
               THEN DataHandler(reqs[c], SubSeq(wire, 1, n)) ELSE reqs[c]]
  /\ wire' = SubSeq(wire, n + 1, Len(wire))
  /\ UNCHANGED <<storeVars, engineVars, auxVars, inbox, feed>>

\* RequestTimeout with a timer that goes off without rejecting the promise.
RequestTimeoutSilent(c) ==
  /\ reqs[c].timer
  /\ reqs' = [reqs EXCEPT ![c].timer = FALSE]
  /\ UNCHANGED <<storeVars, engineVars, auxVars, inbox, wire, feed>>

\* The 45 s timer of a call fires: the promise is rejected.
RequestTimeout(c) ==
  /\ reqs[c].timer
  /\ reqs' = [reqs EXCEPT ![c].timer = FALSE,
                          ![c].state = IF @ = "pending" THEN "timedout" ELSE @]
  /\ UNCHANGED <<storeVars, engineVars, auxVars, inbox, wire, feed>>

\* cleanup(): server.kill().  The process answers nothing any more; what it
\* had written may still be read.  Nothing is done about the pending calls.
Shutdown ==
  /\ alive
  /\ alive' = FALSE
  /\ inbox' = {}
  /\ UNCHANGED <<storeVars, engineVars, served, boot, probe, reqs, wire, feed>>

\* The caller has taken the outcome of a call whose listener is gone.
Release(c) ==
  /\ reqs[c].state \in {"resolved", "timedout"}
  /\ ~reqs[c].listening
  /\ reqs' = [reqs EXCEPT ![c] = FreeCall]
  /\ UNCHANGED <<storeVars, engineVars, auxVars, inbox, wire, feed>>

(***************************************************************************)
(* The line buffering on its own: a stream of newline-terminated records   *)
(* is fed in chunks of any sizes.                                          *)
(***************************************************************************)
RecordTexts ==
  { <<"{", "1", "a", "}">>, <<"{", "2", "eacute", "}">>, <<"{", "b", "}">>,
    <<"sp", "{", "3", "}">> }

RECURSIVE StreamOf(_)
StreamOf(records) ==
  IF records = <<>> THEN <<>>
  ELSE Utf8(Head(records)) \o <<"nl">> \o StreamOf(Tail(records))

FeedChunk(n) ==
  /\ n \in 1..Len(feed.rest)
  /\ LET f == Feed(feed.buffer, SubSeq(feed.rest, 1, n))
     IN  feed' = [feed EXCEPT !.rest = SubSeq(@, n + 1, Len(@)),
                              !.buffer = f.rest,
                              !.records = @ \o f.records]
  /\ UNCHANGED <<storeVars, engineVars, auxVars, reqs, inbox, wire>>

(***************************************************************************)
(* The session routes' responses, the child process, tool discovery.       *)
(***************************************************************************)
NoReply == [route |-> "none", sid |-> Null, status |-> 0]

\* boot.custom and boot.playwright are the tools the two servers have;
\* boot.failed is the server whose tools/list failed, boot.logged that the
\* catch block has reported an error, boot.catalog is this.availableTools.
NoBoot ==
  [pc |-> "off", custom |-> {}, playwright |-> {}, catalog |-> {},
   failed |-> "none", logged |-> FALSE,
   initialized |-> {}, handshake |-> "none", serving |-> FALSE]

\* Tool names as the servers list them.
CustomTools == {<<"get", "system", "info">>, <<"echo">>}
PlaywrightTools ==
  {<<"playwright", "navigate">>, <<"playwright", "screenshot">>,
   <<"playwright", "click">>}

\* tool => ({ ...tool, name: `${server}_${tool.name}` })
Namespaced(server, tools) == { <<server>> \o t : t \in tools }

\* What a tools/list request comes to: a result with the tools, a response
\* without result, or no response within 45 s.
ListOutcomes == {"tools", "error", "timeout"}

\* The tools/list request to the custom server (id 2) ends.
CustomListed(outcome) ==
  /\ boot.pc = "listCustom"
  /\ boot' = IF outcome = "tools"
             THEN [boot EXCEPT !.pc = "listPlaywright"]
             ELSE [boot EXCEPT !.pc = "done", !.failed = "custom", !.logged = TRUE]
  /\ UNCHANGED <<storeVars, engineVars, ioVars, served, alive, probe>>

\* The tools/list request to the playwright server (id 3) ends.
PlaywrightListed(outcome) ==
  /\ boot.pc = "listPlaywright"
  /\ boot' = IF outcome = "tools"
             THEN [boot EXCEPT !.pc = "done",
                               !.catalog = Namespaced("custom", boot.custom)
                                           \cup Namespaced("playwright", boot.playwright)]
             ELSE [boot EXCEPT !.pc = "done", !.failed = "playwright", !.logged = TRUE]
  /\ UNCHANGED <<storeVars, engineVars, ioVars, served, alive, probe>>

\* The fields of the arguments are absent, empty, or hold a value of their own.
ProbeArgs ==
  [selector : {NullStr, "", "#sel"}, locator : {NullStr, "", "#loc"},
   text : {NullStr, "", "T"}, role : {NullStr, "", "R"},
   name : {NullStr, "", "N"}, url : {NullStr}]

NoProbe ==
  [name |-> ClickName, args |-> NoArgs, done |-> FALSE,
   info |-> extractLocatorInfo(ClickName, NoArgs, "plain", 0)]

\* extractLocatorInfo(toolName, toolArgs, result) is called.
ExtractLocator ==
  /\ ~probe.done
  /\ probe' = [probe EXCEPT !.done = TRUE,
                            !.info = extractLocatorInfo(probe.name, probe.args,
                                                        "plain", now)]
  /\ UNCHANGED <<storeVars, engineVars, ioVars, served, alive, boot>>

\* initializeServer(custom): the handshake (id 1) is answered, or times out
\* and start() ends in its catch block, which calls cleanup().
CustomInitialized(outcome) ==
  /\ boot.pc = "initCustom"
  /\ IF outcome = "ok"
     THEN /\ boot' = [boot EXCEPT !.pc = "initPlaywright",
                                   !.initialized = @ \cup {"custom"}]
          /\ alive' = alive
     ELSE /\ boot' = [boot EXCEPT !.pc = "stopped", !.handshake = "custom",
                                   !.logged = TRUE]
          /\ alive' = FALSE
  /\ UNCHANGED <<storeVars, engineVars, ioVars, served, probe>>

\* initializeServer(playwright), likewise.
PlaywrightInitialized(outcome) ==
  /\ boot.pc = "initPlaywright"
  /\ IF outcome = "ok"
     THEN /\ boot' = [boot EXCEPT !.pc = "listCustom",
                                   !.initialized = @ \cup {"playwright"}]
          /\ alive' = alive
     ELSE /\ boot' = [boot EXCEPT !.pc = "stopped", !.handshake = "playwright",
                                   !.logged = TRUE]
          /\ alive' = FALSE
  /\ UNCHANGED <<storeVars, engineVars, ioVars, served, probe>>

\* startMCPServers has returned: app.listen.
Listen ==
  /\ boot.pc = "done"
  /\ boot' = [boot EXCEPT !.pc = "serving", !.serving = TRUE]
  /\ UNCHANGED <<storeVars, engineVars, ioVars, served, alive, probe>>

InitAux ==
  /\ served = NoReply
  /\ alive = TRUE
  /\ boot = NoBoot
  /\ probe = NoProbe

(***************************************************************************)
(* Initial state: an empty session table, no request in flight.            *)
(***************************************************************************)
InitStore ==
  /\ now = 0
  /\ store = {}
  /\ sess = [i \in SessionIds |-> NewSession(0)]
  /\ created = 0
  /\ sweeps = {}
  /\ cleaned = {}

InitEngine ==
  /\ pr = [p \in Slots |-> IdlePrompt]
  /\ nPrompts = 0

(***************************************************************************)
(* The session routes and the clock.                                       *)
(***************************************************************************)
\* Time passes.
Tick ==
  /\ now < MaxClock
  /\ now' = now + 1
  /\ UNCHANGED <<store, sess, created, sweeps, cleaned, pr, nPrompts, service, ioVars, auxVars>>

\* createSession(): a fresh id, the new object, its cleanup timer.
CreateIn(i) ==
  /\ sess' = [sess EXCEPT ![i] = NewSession(now)]
  /\ store' = store \cup {i}
  /\ sweeps' = sweeps \cup {i}
  /\ created' = i

\* POST /api/session/create
CreateSession ==
  /\ created < MaxSessions
  /\ CreateIn(created + 1)
  /\ UNCHANGED <<now, cleaned, pr, nPrompts, service, ioVars, auxVars>>

\* GET /api/session/:sessionId and GET /api/session/:sessionId/history
GetSession(i) ==
  /\ sess' = IF i \in store THEN Touched(sess, i, now) ELSE sess
  /\ UNCHANGED <<now, store, created, sweeps, cleaned, pr, nPrompts, service, ioVars, auxVars>>

\* DELETE /api/session/:sessionId
DeleteSession(i) ==
  /\ store' = store \ {i}
  /\ UNCHANGED <<now, sess, created, sweeps, cleaned, pr, nPrompts, service, ioVars, auxVars>>

\* The callback of scheduleCleanup(i) runs, sessionTimeout or more after the
\* session was created.
Sweep(i) ==
  /\ i \in sweeps
  /\ now >= sess[i].createdAt + sessionTimeout
  /\ sweeps' = sweeps \ {i}
  /\ IF i \in store /\ SweepExpired(sess[i], now)
     THEN store' = store \ {i} /\ cleaned' = cleaned \cup {i}
     ELSE store' = store /\ cleaned' = cleaned
  /\ UNCHANGED <<now, sess, created, pr, nPrompts, service, ioVars, auxVars>>

\* RouteStatus answering success whether or not the session was found.
RouteStatusAlways200(found) == 200

\* The status of a session route: 404 'Session not found' unless found.
RouteStatus(found) == IF found THEN 200 ELSE 404

\* GET /api/session/:sessionId
GetSessionRoute(i) ==
  /\ sess' = IF i \in store THEN Touched(sess, i, now) ELSE sess
  /\ served' = [route |-> "get", sid |-> i, status |-> RouteStatus(i \in store)]
  /\ UNCHANGED <<now, store, created, sweeps, cleaned, engineVars, ioVars, alive, boot, probe>>

\* GET /api/session/:sessionId/history
HistoryRoute(i) ==
  /\ sess' = IF i \in store THEN Touched(sess, i, now) ELSE sess
  /\ served' = [route |-> "history", sid |-> i, status |-> RouteStatus(i \in store)]
  /\ UNCHANGED <<now, store, created, sweeps, cleaned, engineVars, ioVars, alive, boot, probe>>

\* DELETE /api/session/:sessionId with its response.
DeleteRoute(i) ==
  /\ store' = store \ {i}
  /\ served' = [route |-> "delete", sid |-> i, status |-> RouteStatus(i \in store)]
  /\ UNCHANGED <<now, sess, created, sweeps, cleaned, engineVars, ioVars, alive, boot, probe>>

(***************************************************************************)
(* POST /api/prompt and the conversation loop.                             *)
(***************************************************************************)
\* The handler answers with an error status.
Answer(q, status, engine) ==
  [q EXCEPT !.pc = "done", !.status = status, !.engine = engine]

\* Finish with the step count and the trail of the turn written over the
\* session's instead of added to them.
FinishOverwriting(p, q) ==
  LET s1 == [sess[q.sid] EXCEPT !.messages = q.messages]
      s2 == IF q.sid \in store
            THEN [s1 EXCEPT
                    !.locatorHistory = q.locators,
                    !.totalSteps = q.iteration,
                    !.context = MergeContext(s1.context, q.context),
                    !.lastActivity = now]
            ELSE s1
  IN  /\ sess' = [sess EXCEPT ![q.sid] = s2]
      /\ pr' = [pr EXCEPT ![p] =
                 [q EXCEPT !.pc = "done", !.status = 200,
                           !.engine = IF q.complete THEN "completed" ELSE "aborted",
                           !.response = ResponseText(q.finalResult)]]

\* The loop is left: session.messages = messages, the result is returned,
\* and the handler folds it into the session and answers.
Finish(p, q) ==
  LET s1 == [sess[q.sid] EXCEPT !.messages = q.messages]
      s2 == IF q.sid \in store
            THEN [s1 EXCEPT
                    !.locatorHistory = s1.locatorHistory \o q.locators,
                    !.totalSteps = s1.totalSteps + q.iteration,
                    !.context = MergeContext(s1.context, q.context),
                    !.lastActivity = now]
            ELSE s1
  IN  /\ sess' = [sess EXCEPT ![q.sid] = s2]
      /\ pr' = [pr EXCEPT ![p] =
                 [q EXCEPT !.pc = "done", !.status = 200,
                           !.engine = IF q.complete THEN "completed" ELSE "aborted",
                           !.response = ResponseText(q.finalResult),
                           !.info = [totalSteps |-> s2.totalSteps + q.iteration,
                                     totalLocators |-> Len(s2.locatorHistory)
                                                       + Len(q.locators)]]]

\* Advance with the history written to the session on every pass of the loop.
AdvanceEager(p, q) ==
  IF LoopContinues(q.complete, q.iteration)
  THEN /\ pr' = [pr EXCEPT ![p] = CallModel(q)]
       /\ sess' = [sess EXCEPT ![q.sid].messages = q.messages]
  ELSE Finish(p, q)

\* The test of the conversation loop, and what follows it.
Advance(p, q) ==
  IF LoopContinues(q.complete, q.iteration)
  THEN pr' = [pr EXCEPT ![p] = CallModel(q)] /\ sess' = sess
  ELSE Finish(p, q)

\* A POST /api/prompt arrives: validation, the session is resolved, and the
\* loop runs up to its first model call.
PostPrompt(p, sidArg, cont, valid) ==
  /\ pr[p].pc = "idle"
  /\ nPrompts' = nPrompts + 1
  /\ UNCHANGED <<now, cleaned, service, ioVars, auxVars>>
  /\ LET q == [IdlePrompt EXCEPT !.turn = nPrompts + 1] IN
     IF ~valid
     THEN /\ pr' = [pr EXCEPT ![p] = Answer(q, 400, "none")]
          /\ UNCHANGED <<store, sess, created, sweeps>>
     ELSE IF sidArg # Null /\ cont
     THEN IF sidArg \in store
          THEN /\ sess' = Touched(sess, sidArg, now)
               /\ pr' = [pr EXCEPT ![p] =
                          StartAttempt([q EXCEPT !.sid = sidArg], sess'[sidArg])]
               /\ UNCHANGED <<store, created, sweeps>>
          ELSE /\ pr' = [pr EXCEPT ![p] = Answer(q, 404, "none")]
               /\ UNCHANGED <<store, sess, created, sweeps>>
     ELSE /\ created < MaxSessions
          /\ CreateIn(created + 1)
          /\ pr' = [pr EXCEPT ![p] =
                     StartAttempt([q EXCEPT !.sid = created + 1, !.isNew = TRUE],
                                  sess'[created + 1])]

\* The model service answers.
ModelReply(p, reply) ==
  /\ pr[p].pc = "awaitModel"
  /\ UNCHANGED <<now, store, created, sweeps, cleaned, nPrompts, service, ioVars, auxVars>>
  /\ LET q == pr[p]
         q1 == [q EXCEPT
                  !.finalResult = IF reply.text THEN q.finalResult + 1
                                  ELSE q.finalResult,
                  !.messages = Append(q.messages,
                                 AssistantMessage(q.turn, q.iteration, reply.uses)),
                  !.uses = reply.uses, !.results = <<>>, !.idx = 0]
     IN IF reply.uses # <<>>
        THEN pr' = [pr EXCEPT ![p] = CallToolAt(q1, 1)] /\ sess' = sess
        ELSE Advance(p, [q1 EXCEPT !.complete = TRUE])

\* The call of tool_use block idx ends: rpc is what the tool server did.
ToolDone(p, rpc) ==
  /\ pr[p].pc = "awaitTool"
  /\ UNCHANGED <<now, store, created, sweeps, cleaned, nPrompts, service, ioVars, auxVars>>
  /\ LET q == pr[p]
         use == q.uses[q.idx]
         result == callTool(use.name, rpc)
         threw == result = "throws"
         info == [extractLocatorInfo(use.name, use.input,
                                     IF threw THEN "none" ELSE result, now)
                    EXCEPT !.success = IF threw THEN FALSE ELSE @]
         navigated == ~threw /\ use.name = NavigateName /\ Truthy(use.input.url)
         shot == ~threw /\ use.name = ScreenshotName
         q1 == [q EXCEPT
                  !.locators = IF info.locator # NoLocator THEN Append(@, info) ELSE @,
                  !.context = [currentUrl |-> IF navigated THEN use.input.url
                                              ELSE @.currentUrl,
                               browserState |-> IF navigated THEN "open"
                                                ELSE @.browserState,
                               lastScreenshot |-> IF shot THEN now
                                                  ELSE @.lastScreenshot],
                  !.results = Append(@, [id |-> ToolUseId(q.iteration, q.idx),
                                         is_error |-> threw])]
     IN IF q.idx < Len(q.uses)
        THEN pr' = [pr EXCEPT ![p] = CallToolAt(q1, q.idx + 1)] /\ sess' = sess
        ELSE Advance(p, [q1 EXCEPT
                           !.messages = Append(@, ToolResultMessage(q.turn, q1.results))])

\* The model call fails: overloaded (status 529) or otherwise.
ModelFail(p, overloaded) ==
  /\ pr[p].pc = "awaitModel"
  /\ UNCHANGED <<storeVars, nPrompts, service, ioVars, auxVars>>
  /\ LET q == [pr[p] EXCEPT
                 !.retryCount = @ + 1,
                 !.overloads = IF overloaded THEN Counted(@) ELSE @,
                 !.otherFails = IF overloaded THEN @ ELSE Counted(@)]
     IN pr' = [pr EXCEPT ![p] =
                IF overloaded
                THEN [q EXCEPT !.pc = "backoff", !.delay = 2 * q.retryCount]
                ELSE IF q.retryCount >= maxRetries
                THEN Answer(q, 500, "threw")
                ELSE [q EXCEPT !.pc = "backoff", !.delay = 1]]

\* The delay before a retry is over: the retry loop tests its condition; when
\* it fails the function ends without a return value, and the handler's read
\* of result.locators throws.
BackoffDone(p) ==
  /\ pr[p].pc = "backoff"
  /\ UNCHANGED <<storeVars, nPrompts, service, ioVars, auxVars>>
  /\ pr' = [pr EXCEPT ![p] =
             IF RetryAllowed(pr[p].retryCount)
             THEN StartAttempt(pr[p], sess[pr[p].sid])
             ELSE Answer(pr[p], 500, "undefined")]

\* The response has been sent; the slot serves the next request.
Respond(p) ==
  /\ pr[p].pc = "done"
  /\ pr' = [pr EXCEPT ![p] = IdlePrompt]
  /\ UNCHANGED <<storeVars, nPrompts, service, ioVars, auxVars>>

vars == <<now, store, sess, created, sweeps, cleaned, pr, nPrompts, service,
         reqs, inbox, wire, feed, served, alive, boot, probe>>

(***************************************************************************)
(* Spec: requests in flight at once on every slot, with the session routes *)
(* but without the passing of time.                                        *)
(***************************************************************************)
Init == InitStore /\ InitEngine /\ InitIO /\ InitAux /\ service = "brief"

Next ==
  \/ CreateSession
  \/ \E i \in SessionIds : DeleteSession(i)
  \/ \E p \in Slots, i \in 0..MaxSessions, c, v \in BOOLEAN :
       nPrompts < MaxPrompts /\ PostPrompt(p, i, c, v)
  \/ \E p \in Slots : \E r \in Replies(pr[p].iteration) : ModelReply(p, r)
  \/ \E p \in Slots : \E rpc \in LoopOutcomes(pr[p].iteration) : ToolDone(p, rpc)
  \/ \E p \in Slots, o \in BOOLEAN : ModelFail(p, o)
  \/ \E p \in Slots : BackoffDone(p)
  \/ \E p \in Slots : Respond(p)

Spec == Init /\ [][Next]_vars

(***************************************************************************)
(* SpecStore: the session table over time, with one request at a time and  *)
(* a model service that does not fail.                                     *)
(***************************************************************************)
NextStore ==
  \/ Tick
  \/ CreateSession
  \/ \E i \in SessionIds : GetSession(i)
  \/ \E i \in SessionIds : DeleteSession(i)
  \/ \E i \in SessionIds : Sweep(i)
  \/ \E i \in 0..MaxSessions, c, v \in BOOLEAN :
       nPrompts < MaxStorePrompts /\ PostPrompt(1, i, c, v)
  \/ \E r \in Replies(pr[1].iteration) : ModelReply(1, r)
  \/ \E rpc \in LoopOutcomes(pr[1].iteration) : ToolDone(1, rpc)
  \/ Respond(1)

SpecStore == Init /\ [][NextStore]_vars

(***************************************************************************)
(* SpecEngine: one request, with a model service that may keep asking for  *)
(* tools until the iteration cap.                                          *)
(***************************************************************************)
InitLong == InitStore /\ InitEngine /\ InitIO /\ InitAux /\ service = "long"

NextEngine ==
  \/ \E i \in 0..MaxSessions, c, v \in BOOLEAN :
       nPrompts = 0 /\ PostPrompt(1, i, c, v)
  \/ \E r \in Replies(pr[1].iteration) : ModelReply(1, r)
  \/ \E rpc \in LoopOutcomes(pr[1].iteration) : ToolDone(1, rpc)
  \/ \E o \in BOOLEAN : ModelFail(1, o)
  \/ BackoffDone(1)
  \/ Respond(1)

SpecEngine == InitLong /\ [][NextEngine]_vars

(***************************************************************************)
(* SpecSweep: the session table over time without requests and without     *)
(* explicit deletion.  Time passes and a timer that is due fires.          *)
(***************************************************************************)
NextSweep ==
  \/ Tick
  \/ CreateSession
  \/ \E i \in SessionIds : GetSession(i)
  \/ \E i \in SessionIds : Sweep(i)

SpecSweep ==
  /\ Init
  /\ [][NextSweep]_vars
  /\ WF_vars(Tick)
  /\ \A i \in SessionIds : WF_vars(Sweep(i))

(***************************************************************************)
(* SpecBridge: calls of sendMCPRequest on one tool server.                 *)
(***************************************************************************)
NextBridge ==
  \/ now < MaxTicks /\ Tick
  \/ \E c \in Callers : Cardinality(inbox) < MaxUnread /\ SendRequest(c)
  \/ \E q \in inbox : Len(wire) < MaxWire /\ ServerAnswer(q)
  \/ \E n \in 1..Len(wire) : Deliver(n)
  \/ \E c \in Callers : RequestTimeout(c)
  \/ \E c \in Callers : Release(c)

SpecBridge == Init /\ [][NextBridge]_vars

(***************************************************************************)
(* SpecCodec: every stream of up to MaxRecords records, fed in chunks.     *)
(***************************************************************************)
InitCodec ==
  /\ InitStore /\ InitEngine /\ InitAux /\ service = "brief"
  /\ reqs = [c \in Callers |-> FreeCall] /\ inbox = {} /\ wire = <<>>
  /\ \E rs \in SeqsUpTo(RecordTexts, MaxRecords) :
       feed = [stream |-> StreamOf(rs), rest |-> StreamOf(rs),
               buffer |-> <<>>, records |-> <<>>]

NextCodec == \E n \in 1..Len(feed.rest) : FeedChunk(n)

SpecCodec == InitCodec /\ [][NextCodec]_vars

(***************************************************************************)
(* SpecTools: one request at a time, with a model service that asks for    *)
(* any of the tools, several in one reply, and tools that may fail.        *)
(***************************************************************************)
InitVaried == InitStore /\ InitEngine /\ InitIO /\ InitAux /\ service = "varied"

NextTools ==
  \/ \E i \in 0..MaxSessions, c, v \in BOOLEAN :
       nPrompts < MaxPrompts /\ PostPrompt(1, i, c, v)
  \/ \E r \in Replies(pr[1].iteration) : ModelReply(1, r)
  \/ \E rpc \in LoopOutcomes(pr[1].iteration) : ToolDone(1, rpc)
  \/ Respond(1)

SpecTools == InitVaried /\ [][NextTools]_vars

(***************************************************************************)
(* SpecRoutes: the session routes with their responses, and one request.   *)
(***************************************************************************)
NextRoutes ==
  \/ Tick
  \/ CreateSession
  \/ \E i \in SessionIds : GetSessionRoute(i)
  \/ \E i \in SessionIds : HistoryRoute(i)
  \/ \E i \in SessionIds : DeleteRoute(i)
  \/ \E i \in 0..MaxSessions, c, v \in BOOLEAN :
       nPrompts < MaxStorePrompts /\ PostPrompt(1, i, c, v)
  \/ \E r \in Replies(pr[1].iteration) : ModelReply(1, r)
  \/ \E rpc \in LoopOutcomes(pr[1].iteration) : ToolDone(1, rpc)
  \/ Respond(1)

SpecRoutes == Init /\ [][NextRoutes]_vars

(***************************************************************************)
(* SpecShutdown: calls of sendMCPRequest on a tool server that may be      *)
(* killed.  A timer that has been set goes off.                            *)
(***************************************************************************)
NextShutdown ==
  \/ now < MaxTicks /\ Tick
  \/ \E c \in Callers : Cardinality(inbox) < MaxUnread /\ SendRequest(c)
  \/ \E q \in inbox : wire = <<>> /\ ServerAnswer(q)
  \/ \E n \in 1..Len(wire) : Deliver(n)
  \/ \E c \in Callers : RequestTimeout(c)
  \/ \E c \in Callers : Release(c)
  \/ Shutdown

SpecShutdown ==
  /\ Init
  /\ [][NextShutdown]_vars
  /\ \A c \in Callers : WF_vars(RequestTimeout(c))

(***************************************************************************)
(* SpecDiscovery: discoverAllTools over servers with any of their tools.   *)
(***************************************************************************)
InitDiscovery ==
  /\ InitStore /\ InitEngine /\ InitIO /\ service = "brief"
  /\ served = NoReply /\ alive = TRUE /\ probe = NoProbe
  /\ \E c \in SUBSET CustomTools, w \in SUBSET PlaywrightTools :
       boot = [NoBoot EXCEPT !.pc = "listCustom", !.custom = c, !.playwright = w]

NextDiscovery ==
  \/ \E o \in ListOutcomes : CustomListed(o)
  \/ \E o \in ListOutcomes : PlaywrightListed(o)

SpecDiscovery == InitDiscovery /\ [][NextDiscovery]_vars

(***************************************************************************)
(* SpecStartup: start() from the handshakes to app.listen.                 *)
(***************************************************************************)
InitStartup ==
  /\ InitStore /\ InitEngine /\ InitIO /\ service = "brief"
  /\ served = NoReply /\ alive = TRUE /\ probe = NoProbe
  /\ \E c \in SUBSET CustomTools, w \in SUBSET PlaywrightTools :
       boot = [NoBoot EXCEPT !.pc = "initCustom", !.custom = c, !.playwright = w]

NextStartup ==
  \/ \E o \in {"ok", "timeout"} : CustomInitialized(o)
  \/ \E o \in {"ok", "timeout"} : PlaywrightInitialized(o)
  \/ \E o \in ListOutcomes : CustomListed(o)
  \/ \E o \in ListOutcomes : PlaywrightListed(o)
  \/ Listen

SpecStartup == InitStartup /\ [][NextStartup]_vars

(***************************************************************************)
(* SpecLocator: extractLocatorInfo on a playwright tool with any arguments. *)
(***************************************************************************)
InitLocator ==
  /\ InitStore /\ InitEngine /\ InitIO /\ service = "brief"
  /\ served = NoReply /\ alive = TRUE /\ boot = NoBoot
  /\ \E n \in {ClickName, NavigateName}, a \in ProbeArgs :
       probe = [NoProbe EXCEPT !.name = n, !.args = a]

NextLocator == ExtractLocator

SpecLocator == InitLocator /\ [][NextLocator]_vars

(***************************************************************************)
(* SpecNoise: one call at a time on a tool server that also writes lines   *)
(* that answer nothing.                                                    *)
(***************************************************************************)
NextNoise ==
  \/ now < MaxTicks /\ Tick
  \/ inbox = {} /\ SendRequest(1)
  \/ \E q \in inbox : Len(wire) < MaxWire /\ ServerAnswer(q)
  \/ \E k \in NoiseRecords : Len(wire) < MaxWire /\ ServerNoise(k)
  \/ \E n \in 1..Len(wire) : Deliver(n)
  \/ RequestTimeout(1)
  \/ Release(1)

SpecNoise == Init /\ [][NextNoise]_vars

(***************************************************************************)
(* SpecCap: turns one after the other on one slot, with a model service    *)
(* that may keep asking for tools until the iteration cap and does not     *)
(* fail.                                                                   *)
(***************************************************************************)
NextCap ==
  \/ \E i \in 0..MaxSessions, c, v \in BOOLEAN :
       nPrompts < MaxPrompts /\ PostPrompt(1, i, c, v)
  \/ \E r \in Replies(pr[1].iteration) : ModelReply(1, r)
  \/ \E rpc \in LoopOutcomes(pr[1].iteration) : ToolDone(1, rpc)
  \/ Respond(1)

SpecCap == InitLong /\ [][NextCap]_vars

(***************************************************************************)
(* Claims                                                                  *)
(***************************************************************************)
InFlight(q) == q.pc \in {"awaitModel", "awaitTool", "backoff"}

\* What a turn may change of a session: history, trail, step count, context.
Durable(s) == <<s.messages, s.locatorHistory, s.totalSteps, s.context>>

IdlePastTimeout(i) == i \in store /\ now - sess[i].lastActivity > sessionTimeout

ListedIds == { s.id : s \in getAllSessions }

\* C2: at any instant at most one conversation loop is executing for a given
\* session: no two requests in flight are bound to the same session.
C2_OneLoopPerSession ==
  \A p1, p2 \in Slots :
    (p1 # p2 /\ InFlight(pr[p1]) /\ InFlight(pr[p2])) => pr[p1].sid # pr[p2].sid

\* C3: within one request the model is queried at most maxIterations times
\* in total, whatever it answers and however it fails.
C3_AtMostTwentyQueries == \A p \in Slots : pr[p].queries <= maxIterations

\* C4: every request whose loop returned without raising (the model
\* finished, the cap was hit, or the function ended otherwise) carries a
\* non-empty response text and is answered as a success.
C4_ReturnsNonEmptyText ==
  \A p \in Slots :
    (pr[p].pc = "done" /\ pr[p].engine \in {"completed", "aborted", "undefined"})
      => (pr[p].response # "" /\ pr[p].status = 200)

\* C5: a request during which the model reported overloaded exactly twice
\* and failed in no other way ends as a success, within the budget of
\* maxRetries attempts.
C5_TwoOverloadsThenSuccess ==
  \A p \in Slots :
    (pr[p].pc = "done" /\ pr[p].overloads = 2 /\ pr[p].otherFails = 0)
      => (pr[p].status = 200 /\ pr[p].response # "" /\ pr[p].retryCount < maxRetries)

C5_Witness ==
  \E p \in Slots :
    /\ pr[p].pc = "done" /\ pr[p].overloads = 2 /\ pr[p].otherFails = 0
    /\ pr[p].status = 200 /\ pr[p].queries > 3

\* C6: a request whose every model call failed as overloaded ends, once the
\* budget of maxRetries attempts is used up, with the loop raising an error.
C6_AlwaysOverloadedRaises ==
  \A p \in Slots :
    (pr[p].pc = "done" /\ pr[p].overloads = maxRetries
       /\ pr[p].queries = pr[p].overloads)
      => pr[p].engine = "threw"

\* C7: when the cleanup timer of a session fires, the session is removed if
\* and only if it is in the table and has been idle longer than the timeout;
\* it is then absent from the listing, and otherwise it stays listed.
C7_SweepRemovesIffIdle ==
  [][\A i \in SessionIds :
       (i \in sweeps /\ i \notin sweeps') =>
         /\ (i \in store /\ i \notin ListedIds')
              <=> (i \in store /\ now - sess[i].lastActivity > sessionTimeout)
         /\ (i \in store /\ now - sess[i].lastActivity <= sessionTimeout)
              => i \in ListedIds']_vars

C7_Witness ==
  \E i, j \in SessionIds :
    /\ i \in cleaned /\ i \notin store
    /\ sess[i].lastActivity = sess[i].createdAt
    /\ j \in store /\ j \notin sweeps
    /\ sess[j].lastActivity > sess[j].createdAt

\* C8: a session that has stayed idle past the timeout does not stay in the
\* table for ever: it is eventually removed (or touched again).
C8_IdleSessionsExpire ==
  \A i \in SessionIds : IdlePastTimeout(i) ~> ~IdlePastTimeout(i)

\* C9: a request that fails commits nothing to its session: whenever the
\* history, trail, step count or context of a session changes, a request on
\* that session ends as a success in that very step, or the session is being
\* created.
C9_OnlySuccessMutates ==
  [][\A i \in SessionIds :
       Durable(sess'[i]) # Durable(sess[i]) =>
         \/ created' = i /\ created # i
         \/ \E p \in Slots :
              /\ InFlight(pr[p]) /\ pr[p].sid = i
              /\ pr'[p].pc = "done" /\ pr'[p].status = 200]_vars

C9_Witness ==
  \E p \in Slots :
    /\ pr[p].pc = "done" /\ pr[p].status = 500 /\ ~pr[p].isNew
    /\ pr[p].sid \in store
    /\ sess[pr[p].sid].messages # <<>>
    /\ Len(pr[p].messages) > Len(sess[pr[p].sid].messages) + 1

\* C1: whatever the order in which the responses arrive, every call that is
\* resolved is resolved with the response the tool server produced for it.
C1_ResolvedWithOwnResponse ==
  \A c \in Callers :
    reqs[c].state = "resolved" =>
      /\ reqs[c].response.id = reqs[c].id
      /\ reqs[c].response.payload = <<AnswerTo(c)>>

\* C10: once a stream of newline-terminated records has been fed, in chunks
\* of whatever sizes, the line buffering has yielded the records it yields
\* for the stream fed in one piece.
C10_SplitInvariance ==
  feed.rest = <<>> => feed.records = Feed(<<>>, feed.stream).records

\* The arguments hold a selector-bearing field: selector, locator, text, or
\* role together with name.
SelectorBearing(args) ==
  \/ args.selector # NullStr \/ args.locator # NullStr \/ args.text # NullStr
  \/ (args.role # NullStr /\ args.name # NullStr)

\* The number of tool-result entries that turn t has put into a history.
RECURSIVE ToolResultsOf(_, _)
ToolResultsOf(msgs, t) ==
  IF msgs = <<>> THEN 0
  ELSE (IF Head(msgs).kind = "tool_results" /\ Head(msgs).turn = t
        THEN Len(Head(msgs).body) ELSE 0) + ToolResultsOf(Tail(msgs), t)

\* C11: when the call of a tool of the catalog ends, whichever tool it is:
\* arguments without a selector-bearing field add nothing to the trail, and
\* arguments with a selector add one record whose locator is that selector.
C11_LocatorRecordedIffSelector ==
  [][\A p \in Slots :
       (pr[p].pc = "awaitTool" /\ pr'[p] # pr[p]
          /\ pr[p].uses[pr[p].idx].name \in availableTools) =>
         LET use == pr[p].uses[pr[p].idx]
             old == pr[p].locators
             new == pr'[p].locators
         IN  /\ ~SelectorBearing(use.input) => new = old
             /\ use.input.selector # NullStr =>
                  /\ Len(new) = Len(old) + 1
                  /\ SubSeq(new, 1, Len(old)) = old
                  /\ new[Len(new)].locator = <<"raw", use.input.selector>>]_vars

\* C12: the step count a turn returns is the number of tool invocations of
\* the turn (so a turn of one tool call returns 1).
C12_StepsCountToolCalls ==
  \A p \in Slots :
    (pr[p].pc = "done" /\ pr[p].status = 200) =>
      pr[p].iteration = ToolResultsOf(pr[p].messages, pr[p].turn)

\* C13: every tool call of a reply is made and answered in the history: a
\* reply that asks for k tools is followed by one user turn of k results,
\* with the ids of the calls in request order; the result of a call that
\* fails (here: of a tool that is not in the catalog) is an error entry; and
\* no request ends with an error where only tools failed.
C13_EveryToolCallAnswered ==
  /\ [](\A p \in Slots :
          LET msgs == pr[p].messages IN
          /\ \A j \in 1..Len(msgs) :
               /\ msgs[j].kind = "tool_results" =>
                    /\ j > 1 /\ msgs[j - 1].kind = "reply"
                    /\ Len(msgs[j].body) = Len(msgs[j - 1].body)
                    /\ \A k \in 1..Len(msgs[j].body) :
                         msgs[j].body[k].id = msgs[j - 1].body[k].id
               /\ (msgs[j].kind = "reply" /\ msgs[j].body # <<>> /\ j < Len(msgs))
                    => msgs[j + 1].kind = "tool_results"
          /\ pr[p].pc = "done" => pr[p].status # 500)
  /\ [][\A p \in Slots :
          (pr[p].pc = "awaitTool" /\ pr'[p] # pr[p]) =>
            LET i == pr[p].idx IN
            /\ Len(pr'[p].results) = i
            /\ pr'[p].results[i].id = ToolUseId(pr[p].iteration, i)
            /\ pr[p].uses[i].name \notin availableTools => pr'[p].results[i].is_error
            /\ i < Len(pr[p].uses) => (pr'[p].pc = "awaitTool" /\ pr'[p].idx = i + 1)]_vars

C13_Witness ==
  \E p \in Slots :
    /\ pr[p].pc = "done" /\ pr[p].status = 200
    /\ \E j \in 1..Len(pr[p].messages) :
         LET m == pr[p].messages[j] IN
         /\ m.kind = "tool_results" /\ Len(m.body) = 2
         /\ m.body[1].is_error /\ ~m.body[2].is_error

\* C14: the tool calls a request has sent to the tool servers are the ones
\* its committed history records, one result entry each (every tool asked
\* for under SpecEngine is in the catalog).
C14_DispatchedOnceAndRecorded ==
  \A p \in Slots :
    (pr[p].pc = "done" /\ pr[p].status = 200) =>
      pr[p].dispatched = ToolResultsOf(pr[p].messages, pr[p].turn)

\* C15: an operation on a session id that is not in the table (get, history,
\* delete, a prompt continuing it) is answered 404 and changes nothing: no
\* session is created, no loop is started, every session is as it was.
C15_NotFoundHasNoEffect ==
  [][/\ \A i \in SessionIds :
          (i \notin store /\ (GetSessionRoute(i) \/ HistoryRoute(i) \/ DeleteRoute(i)))
            => /\ served'.status = 404
               /\ UNCHANGED <<store, sess, created, sweeps, pr, nPrompts>>
     /\ \A p \in Slots, i \in SessionIds :
          (i \notin store /\ PostPrompt(p, i, TRUE, TRUE))
            => /\ pr'[p].pc = "done" /\ pr'[p].status = 404
               /\ pr'[p].engine = "none"
               /\ UNCHANGED <<store, sess, created, sweeps>>]_vars

C15_Witness ==
  /\ served.route = "delete" /\ served.status = 404
  /\ store # {}
  /\ \E p \in Slots : pr[p].pc = "done" /\ pr[p].status = 404

\* C16: cleanup fails every call pending at that moment: right after the
\* kill no call is pending.
C16_ShutdownFailsPending ==
  [][(alive /\ ~alive') => \A c \in Callers : reqs'[c].state # "pending"]_vars

\* C17: every call of sendMCPRequest is settled in the end, by a response or
\* by its timer, also when the server never answers or has been killed.
C17_EveryCallSettles ==
  \A c \in Callers : (reqs[c].state = "pending") ~> (reqs[c].state # "pending")

C17_Witness ==
  \E c \in Callers : ~alive /\ reqs[c].state = "timedout" /\ reqs[c].listening

\* C19: the ids of the calls pending on one tool server are pairwise
\* distinct.
C19_PendingIdsDistinct ==
  \A c, d \in Callers :
    (c # d /\ reqs[c].state = "pending" /\ reqs[d].state = "pending")
      => reqs[c].id # reqs[d].id

\* C18: when the listing of one server fails, the catalog holds the tools of
\* the other server under its namespace, and the failure has been reported.
C18_CatalogOfTheOthers ==
  boot.pc = "done" =>
    /\ boot.failed = "playwright" =>
         (Namespaced("custom", boot.custom) \subseteq boot.catalog /\ boot.logged)
    /\ boot.failed = "custom" =>
         (Namespaced("playwright", boot.playwright) \subseteq boot.catalog /\ boot.logged)

\* C20: the fold is atomic: a request that ends as a success on a session of
\* the table adds the step count it returns to the session's and appends the
\* records it returns to the session's trail, whatever other requests on the
\* session did meanwhile; nothing else changes the two.
C20_FoldIsAtomic ==
  [][/\ \A p \in Slots :
          (InFlight(pr[p]) /\ pr'[p].pc = "done" /\ pr'[p].status = 200
             /\ pr[p].sid \in store) =>
            LET i == pr[p].sid IN
            /\ sess'[i].totalSteps = sess[i].totalSteps + pr'[p].iteration
            /\ sess'[i].locatorHistory = sess[i].locatorHistory \o pr'[p].locators
     /\ \A i \in SessionIds :
          (sess'[i].totalSteps # sess[i].totalSteps
             \/ sess'[i].locatorHistory # sess[i].locatorHistory) =>
            \/ created' = i /\ created # i
            \/ \E p \in Slots : /\ InFlight(pr[p]) /\ pr[p].sid = i
                                /\ pr'[p].pc = "done" /\ pr'[p].status = 200]_vars

\* Two requests on one session overlapped (the second commit has dropped the
\* first one's part of the history) and both were folded.
C20_Witness ==
  \E p1, p2 \in Slots :
    /\ p1 # p2 /\ pr[p1].sid = pr[p2].sid /\ pr[p1].sid \in store
    /\ pr[p1].pc = "done" /\ pr[p1].status = 200
    /\ pr[p2].pc = "done" /\ pr[p2].status = 200
    /\ pr[p1].locators # <<>> /\ pr[p2].locators # <<>>
    /\ \A j \in 1..Len(sess[pr[p1].sid].messages) :
         sess[pr[p1].sid].messages[j].turn # pr[p1].turn
    /\ sess[pr[p1].sid].totalSteps = pr[p1].iteration + pr[p2].iteration
    /\ Len(sess[pr[p1].sid].locatorHistory)
         = Len(pr[p1].locators) + Len(pr[p2].locators)

\* s is a prefix of t.
IsPrefix(s, t) == Len(s) <= Len(t) /\ SubSeq(t, 1, Len(s)) = s

\* The number of model replies in a history: one per iteration of a turn.
RECURSIVE RepliesIn(_)
RepliesIn(msgs) ==
  IF msgs = <<>> THEN 0
  ELSE (IF Head(msgs).kind = "reply" THEN 1 ELSE 0) + RepliesIn(Tail(msgs))

\* C21: the stored history of a session is append-only: whenever it changes,
\* what it was is a prefix of what it becomes.
C21_HistoryAppendOnly ==
  [][\A i \in SessionIds : IsPrefix(sess[i].messages, sess'[i].messages)]_vars

\* C22: a step is an iteration: the stored step count of a session is the
\* number of model-query iterations of its successful turns (each iteration
\* of such a turn has put one model reply into the history).
C22_StepsAreIterations ==
  \A i \in store : sess[i].totalSteps = RepliesIn(sess[i].messages)

C22_Witness ==
  \E i \in store :
    /\ sess[i].totalSteps >= 3
    /\ \E j, k \in 1..Len(sess[i].messages) :
         sess[i].messages[j].turn = 1 /\ sess[i].messages[k].turn = 2

\* C23: listener and timer of a call are gone as soon as the call has ended:
\* as many listeners are registered as calls are pending.
C23_ListenersArePending ==
  /\ Cardinality({c \in Callers : reqs[c].listening})
       = Cardinality({c \in Callers : reqs[c].state = "pending"})
  /\ \A c \in Callers : reqs[c].timer => reqs[c].state = "pending"

\* C25: a failure of the model call other than overload is retried once: the
\* second such failure of a request ends it with an error.
C25_OtherFailureRetriedOnce ==
  \A p \in Slots :
    pr[p].otherFails >= 2 =>
      (pr[p].pc = "done" /\ pr[p].status = 500 /\ pr[p].engine = "threw")

\* C28: the totals reported with a success are the stored step count and the
\* stored length of the trail of the session after the update.
C28_ReportedTotalsAreStored ==
  \A p \in Slots :
    (pr[p].pc = "done" /\ pr[p].status = 200 /\ pr[p].sid \in store) =>
      /\ pr[p].info.totalSteps = sess[pr[p].sid].totalSteps
      /\ pr[p].info.totalLocators = Len(sess[pr[p].sid].locatorHistory)

\* C29: a prompt that names a session of the table runs in that session and
\* creates none, whether or not it says continueSession.
C29_PromptRunsInNamedSession ==
  [][\A p \in Slots, i \in SessionIds, c \in BOOLEAN :
       (i \in store /\ PostPrompt(p, i, c, TRUE)) =>
         (pr'[p].sid = i /\ created' = created /\ store' = store)]_vars

\* C30: when a request is answered as a success (canContinue: true) for a
\* session, the session is in the table and holds the results of the turn.
C30_SuccessMeansStored ==
  [][\A p \in Slots :
       (InFlight(pr[p]) /\ pr'[p].pc = "done" /\ pr'[p].status = 200) =>
         LET i == pr[p].sid IN
         /\ i \in store'
         /\ sess'[i].messages = pr'[p].messages
         /\ sess'[i].totalSteps = sess[i].totalSteps + pr'[p].iteration
         /\ sess'[i].locatorHistory = sess[i].locatorHistory \o pr'[p].locators]_vars

\* C24: a handshake that times out on one server neither kills the servers
\* nor stops the start-up: the other server stays usable.
C24_HandshakeFailureIsLocal ==
  boot.handshake # "none" => (alive /\ boot.pc # "stopped")

\* A field of the arguments is present: it holds a non-empty value.
Present(v) == v # NullStr /\ v # ""

C27_NoiseIsSkipped ==
  [][Len(wire') < Len(wire) =>
       LET chunk == SubSeq(wire, 1, Len(wire) - Len(wire')) IN
       \A c \in Callers :
         (reqs[c].state = "pending" /\ reqs[c].listening) =>
           LET recs == Feed(reqs[c].buffer, chunk).records
               match == \E k \in 1..Len(recs) :
                          Parse(recs[k]).ok /\ Parse(recs[k]).id = reqs[c].id
           IN  /\ match => /\ reqs'[c].state = "resolved"
                           /\ reqs'[c].response.id = reqs[c].id
                           /\ reqs'[c].response.payload = <<AnswerTo(c)>>
               /\ ~match => (reqs'[c].state = "pending" /\ reqs'[c].listening)]_vars

C27_Witness ==
  \E c \in Callers :
    /\ reqs[c].state = "resolved"
    /\ reqs[c].buffer # <<>> /\ reqs[c].buffer[1] = "a"
    /\ reqs[c].response.payload = <<AnswerTo(c)>>

\* The roles of a history alternate, starting with user.
Alternates(msgs) ==
  /\ msgs # <<>> => msgs[1].role = "user"
  /\ \A j \in 1..(Len(msgs) - 1) : msgs[j].role # msgs[j + 1].role

\* C31: in every stored session history the roles strictly alternate,
\* starting with user, after any sequence of turns on the session, turns
\* that ended at the iteration cap included.
C31_RolesAlternate ==
  \A i \in SessionIds : Alternates(sess[i].messages)

====
